---- MODULE Spec2Model ----
(***************************************************************************)
(* Model of the poker-tui rules engine: the hand evaluator of              *)
(* src/src/core_engine.rs and the session / hand / chip / turn state       *)
(* machine of src/src/lib.rs.                                              *)
(*                                                                         *)
(* u32 values.  TLC integers are 32-bit signed, so a u32 is carried as the *)
(* integer congruent to it modulo 2^32 that lies in (-2^31, 2^31).         *)
(* Wrapping addition and subtraction are then plain + and -, and a         *)
(* negative integer n stands for the u32 value 2^32 + n, i.e. a value that *)
(* wrapped below zero.  All amounts of the model stay far below 2^31.      *)
(***************************************************************************)
EXTENDS Integers, Sequences, FiniteSets, TLC

----------------------------------------------------------------------------
(* Bounds of the model *)

MaxHands == 1
MaxRaises == 1
MaxRounds == 4
MaxLateActions == 1

----------------------------------------------------------------------------
(* Generic helpers *)

Reverse(s) == [i \in 1..Len(s) |-> s[Len(s) + 1 - i]]

CmpInt(a, b) == IF a < b THEN -1 ELSE IF a > b THEN 1 ELSE 0

RECURSIVE CmpSeq(_, _)
CmpSeq(a, b) ==
    IF a = <<>> \/ b = <<>>
    THEN CmpInt(Len(a), Len(b))
    ELSE IF Head(a) # Head(b) THEN CmpInt(Head(a), Head(b))
         ELSE CmpSeq(Tail(a), Tail(b))

----------------------------------------------------------------------------
(* core_engine.rs: cards and the hand evaluator *)

Card(s, v) == [suit |-> s, value |-> v]

\* insertion of a card behind every card whose value is <= its own: the
\* stable ascending order of sort_by_key
RECURSIVE InsertByValue(_, _)
InsertByValue(sorted, c) ==
    IF sorted = <<>> THEN <<c>>
    ELSE IF Head(sorted).value <= c.value
         THEN <<Head(sorted)>> \o InsertByValue(Tail(sorted), c)
         ELSE <<c>> \o sorted

RECURSIVE SortByValue(_)
SortByValue(cards) ==
    IF cards = <<>> THEN <<>>
    ELSE InsertByValue(SortByValue(SubSeq(cards, 1, Len(cards) - 1)),
                       cards[Len(cards)])

as_sorted(hand) == Reverse(SortByValue(hand))

ValuesOf(cards) == [i \in 1..Len(cards) |-> cards[i].value]

as_values(hand) == ValuesOf(as_sorted(hand))

\* the values with every 14 replaced by 1
AceAsOne(values) == [i \in 1..Len(values) |-> IF values[i] = 14 THEN 1 ELSE values[i]]

\* values.sort(); values.reverse()
SortDescending(values) ==
    Reverse(ValuesOf(SortByValue([i \in 1..Len(values) |-> Card("H", values[i])])))

\* the ace left at 14
values_with_ace_high(hand) == as_values(hand)

get_values_with_ace_as_one(hand) == SortDescending(AceAsOne(as_values(hand)))

\* Ranking: the variant's position in the enum, then its fields
HighCard == [cat |-> 0, vals |-> <<>>]
Pair(v) == [cat |-> 1, vals |-> <<v>>]
TwoPairs(v1, v2) == [cat |-> 2, vals |-> <<v1, v2>>]
ThreeOfAKind(v) == [cat |-> 3, vals |-> <<v>>]
Straight(v) == [cat |-> 4, vals |-> <<v>>]
Flush == [cat |-> 5, vals |-> <<>>]
FullHouse(v1, v2) == [cat |-> 6, vals |-> <<v1, v2>>]
FourOfAKind(v) == [cat |-> 7, vals |-> <<v>>]
StraightFlush(v) == [cat |-> 8, vals |-> <<v>>]

None == [cat |-> -1, vals |-> <<>>]

\* the fields of the rankings left out of the comparison
RankingCmp_category_only(a, b) == CmpInt(a.cat, b.cat)

RankingCmp(a, b) ==
    IF a.cat # b.cat THEN CmpInt(a.cat, b.cat) ELSE CmpSeq(a.vals, b.vals)

find_straight(values) ==
    IF \A i \in 1..4 : values[i] = values[i + 1] + 1 THEN values[1] ELSE 0

\* find_straight(..).or_else(|| find_straight(..)).map(Straight), 0 for None
StraightOf(hi, lo) ==
    IF hi # 0 THEN Straight(hi)
    ELSE IF lo # 0 THEN Straight(lo)
    ELSE None

try_get_straight(hand) ==
    StraightOf(find_straight(as_values(hand)),
               find_straight(get_values_with_ace_as_one(hand)))

FlushOf(s) == IF s # None THEN StraightFlush(s.vals[1]) ELSE Flush

try_get_flush(hand) ==
    IF \A i \in 1..5 : hand[i].suit = hand[1].suit
    THEN FlushOf(try_get_straight(hand))
    ELSE None

\* the HashMap of get_groups after the scan of values[1..]: a value enters
\* with count 1 + 1 the first time it equals its predecessor
RECURSIVE ScanGroups(_, _, _)
ScanGroups(values, i, groups) ==
    IF i > Len(values) THEN groups
    ELSE IF values[i] = values[i - 1]
         THEN ScanGroups(values, i + 1,
                         [k \in DOMAIN groups \cup {values[i]} |->
                             IF k # values[i] THEN groups[k]
                             ELSE IF k \in DOMAIN groups THEN groups[k] + 1
                             ELSE 2])
         ELSE ScanGroups(values, i + 1, groups)

\* b.1.cmp(&a.1).then_with(|| b.0.cmp(&a.0)): count descending, then value
\* groups of one size ordered by ascending value
GroupBefore_low_value_first(a, b) == a[2] > b[2] \/ (a[2] = b[2] /\ a[1] < b[1])

GroupBefore(a, b) == a[2] > b[2] \/ (a[2] = b[2] /\ a[1] > b[1])

RECURSIVE SortGroups(_)
SortGroups(entries) ==
    IF entries = {} THEN <<>>
    ELSE LET first == CHOOSE e \in entries :
                          \A o \in entries \ {e} : GroupBefore(e, o)
         IN  <<first>> \o SortGroups(entries \ {first})

GroupEntries(groups) == {<<v, groups[v]>> : v \in DOMAIN groups}

get_groups(hand) == SortGroups(GroupEntries(ScanGroups(as_values(hand), 2, <<>>)))

\* the slice patterns of try_get_group_based_ranking
MatchGroups(g) ==
    IF Len(g) = 1 /\ g[1][2] = 4 THEN FourOfAKind(g[1][1])
    ELSE IF Len(g) = 2 /\ g[1][2] = 3 /\ g[2][2] = 2
         THEN FullHouse(g[1][1], g[2][1])
    ELSE IF Len(g) = 1 /\ g[1][2] = 3 THEN ThreeOfAKind(g[1][1])
    ELSE IF Len(g) = 2 /\ g[1][2] = 2 /\ g[2][2] = 2
         THEN TwoPairs(g[1][1], g[2][1])
    ELSE IF Len(g) = 1 /\ g[1][2] = 2 THEN Pair(g[1][1])
    ELSE None

try_get_group_based_ranking(hand) == MatchGroups(get_groups(hand))

\* a.or_else(|| b)
OrElse(a, b) == IF a # None THEN a ELSE b

get_ranking(hand) ==
    OrElse(OrElse(OrElse(try_get_flush(hand), try_get_straight(hand)),
                  try_get_group_based_ranking(hand)),
           HighCard)

\* impl Ord for Hand
OrderingThen(ranking_comp, values_comp) ==
    IF ranking_comp # 0 THEN ranking_comp ELSE values_comp

\* the card values compared before the rankings
HandCmp_values_first(a, b) ==
    OrderingThen(CmpSeq(as_values(a), as_values(b)),
                 RankingCmp(get_ranking(a), get_ranking(b)))

HandCmp(a, b) ==
    OrderingThen(RankingCmp(get_ranking(a), get_ranking(b)),
                 CmpSeq(as_values(a), as_values(b)))

----------------------------------------------------------------------------
(* lib.rs: best 5 of 7 *)

\* Iterator::max / max_by_key: the last of several equally maximal elements
RECURSIVE MaxIndexFrom(_, _, _)
MaxIndexFrom(keys, i, best) ==
    IF i > Len(keys) THEN best
    ELSE IF HandCmp(keys[best], keys[i]) = 1
         THEN MaxIndexFrom(keys, i + 1, best)
         ELSE MaxIndexFrom(keys, i + 1, i)

MaxIndex(keys) == MaxIndexFrom(keys, 2, 1)

RECURSIVE combos(_, _, _)
combos(cards, start, prefix) ==
    IF Len(prefix) = 5 THEN <<prefix>>
    ELSE IF 7 - start + Len(prefix) = 5
         THEN <<prefix \o SubSeq(cards, start + 1, 7)>>
    ELSE combos(cards, start + 1, prefix)
         \o combos(cards, start + 1, Append(prefix, cards[start + 1]))

\* collector.into_iter().max()
FirstHand(collector) == collector[1]

MaxHand(collector) == collector[MaxIndex(collector)]

best_hand_from_cards(cards) == MaxHand(combos(cards, 0, <<>>))

----------------------------------------------------------------------------
(* core_engine.rs: Deck.  A deck is the Vec of its cards; draw pops the    *)
(* last one.                                                               *)

ordered_deck ==
    LET suits == <<"C", "D", "H", "S">>
    IN  [i \in 1..52 |-> Card(suits[((i - 1) \div 13) + 1], 14 - ((i - 1) % 13))]

\* the test helper: cards listed in the order they are to be drawn
deck_from_strings(cards) == Reverse(cards)

\* the first deck of should_win_when_have_better_hand, and its three-player
\* deck with the first and the last hole cards exchanged
TestDecks ==
    { <<Card("H", 2), Card("D", 7), Card("D", 5), Card("C", 11),
        Card("C", 7), Card("H", 4), Card("C", 10), Card("H", 14), Card("H", 12)>>,
      <<Card("H", 5), Card("H", 8), Card("D", 5), Card("C", 11), Card("H", 2), Card("D", 7),
        Card("C", 7), Card("H", 4), Card("C", 10), Card("H", 11), Card("H", 12)>> }

Decks(n) ==
    {ordered_deck}
    \cup {deck_from_strings(d) : d \in {t \in TestDecks : Len(t) = 2 * n + 5}}

\* the numbers of players of the sessions explored
PlayerCounts == {2, 3}

\* Deck::draw on a deck that holds a card
draw(d) == [card |-> d[Len(d)], deck |-> SubSeq(d, 1, Len(d) - 1)]

\* Deck::draw_multiple on a deck that holds count cards
draw_multiple(d, count) ==
    [cards |-> Reverse(SubSeq(d, Len(d) - count + 1, Len(d))),
     deck |-> SubSeq(d, 1, Len(d) - count)]

draw_starting_hands(n, d) ==
    [deck |-> SubSeq(d, 1, Len(d) - 2 * n),
     hands |-> [p \in 0..(n - 1) |-> <<d[Len(d) - 2 * p], d[Len(d) - 2 * p - 1]>>]]

----------------------------------------------------------------------------
(* lib.rs: ChipsState *)

ChipsState_init(stacks) ==
    [player_chips |-> [p \in DOMAIN stacks |-> [stack |-> stacks[p], bet |-> 0]],
     pot |-> 0]

get_stacks(cs) == [p \in DOMAIN cs.player_chips |-> cs.player_chips[p].stack]

\* stack -= amount leaves the u32 range: the stack is a true (unwrapped)
\* value smaller than the amount
Underflows(cs, player, amount) ==
    cs.player_chips[player].stack >= 0 /\ amount > cs.player_chips[player].stack

bet_chips(cs, player, amount) ==
    [cs EXCEPT !.player_chips[player].stack = @ - amount,
               !.player_chips[player].bet = @ + amount]

RECURSIVE MaxOf(_)
MaxOf(S) ==
    LET x == CHOOSE v \in S : TRUE
    IN  IF S = {x} THEN x
        ELSE LET m == MaxOf(S \ {x}) IN IF x > m THEN x ELSE m

highest_bet(cs) == MaxOf({cs.player_chips[p].bet : p \in DOMAIN cs.player_chips})

RECURSIVE SumBets(_, _)
SumBets(pc, S) ==
    IF S = {} THEN 0
    ELSE LET p == CHOOSE q \in S : TRUE IN pc[p].bet + SumBets(pc, S \ {p})

RECURSIVE SumStacks(_, _)
SumStacks(pc, S) ==
    IF S = {} THEN 0
    ELSE LET p == CHOOSE q \in S : TRUE IN pc[p].stack + SumStacks(pc, S \ {p})

move_chips_to_pot(cs) ==
    [player_chips |-> [p \in DOMAIN cs.player_chips |->
                          [stack |-> cs.player_chips[p].stack, bet |-> 0]],
     pot |-> cs.pot + SumBets(cs.player_chips, DOMAIN cs.player_chips)]

\* win_pot without the collection of the outstanding bets
win_pot_without_bets(cs, player) ==
    [player_chips |-> [cs.player_chips EXCEPT ![player].stack = @ + cs.pot],
     pot |-> 0]

win_pot(cs, player) ==
    LET moved == move_chips_to_pot(cs)
    IN  [player_chips |-> [moved.player_chips EXCEPT ![player].stack = @ + moved.pot],
         pot |-> 0]

\* the amount ChipsState::call hands to bet_chips
call_amount(cs, player) == highest_bet(cs) - cs.player_chips[player].bet

call(cs, player) == bet_chips(cs, player, call_amount(cs, player))

----------------------------------------------------------------------------
(* lib.rs: TurnState *)

TurnState_init(n, first) ==
    [current_player |-> first,
     first_player |-> first,
     players |-> n,
     active_players |-> [p \in 0..(n - 1) |-> TRUE],
     turns_since_action |-> 0,
     rounds |-> 0]

\* the round closing one turn late
should_start_one_turn_late(t) == t.turns_since_action = t.players + 1

should_start_next_betting_round(t) == t.turns_since_action = t.players

ActiveSet(t) == {p \in DOMAIN t.active_players : t.active_players[p]}

\* the new round going on at the next seat
advance_seat_without_reposition(t) ==
    LET t1 == [t EXCEPT !.turns_since_action = @ + 1]
    IN  IF should_start_next_betting_round(t1)
        THEN [turn |-> [t1 EXCEPT !.current_player = (@ + 1) % t1.players,
                                  !.rounds = @ + 1,
                                  !.turns_since_action = 0],
              new_round |-> TRUE]
        ELSE [turn |-> [t1 EXCEPT !.current_player = (@ + 1) % t1.players],
              new_round |-> FALSE]

\* advance_player up to its skip loop
advance_seat(t) ==
    LET t1 == [t EXCEPT !.turns_since_action = @ + 1]
    IN  IF should_start_next_betting_round(t1)
        THEN [turn |-> [t1 EXCEPT !.current_player = t1.first_player,
                                  !.rounds = @ + 1,
                                  !.turns_since_action = 0],
              new_round |-> TRUE]
        ELSE [turn |-> [t1 EXCEPT !.current_player = (@ + 1) % t1.players],
              new_round |-> FALSE]

\* advance_player, for a turn state with an active seat (with none the skip
\* loop never ends).  The nested calls' results are dropped by the code:
\* new_round is the outermost call's.
RECURSIVE advance_player(_)
RECURSIVE skip_folded(_)
\* the seat advanced to is taken as it is
skip_nothing(t) == t

skip_folded(t) ==
    IF t.active_players[t.current_player] THEN t
    ELSE skip_folded(advance_player(t).turn)

advance_player(t) ==
    LET s == advance_seat(t)
    IN  [turn |-> skip_folded(s.turn), new_round |-> s.new_round]

\* a raise that leaves the turn counter as it is
advance_player_raise_without_reset(t) == advance_player(t).turn

advance_player_raise(t) ==
    advance_player([t EXCEPT !.turns_since_action = 0]).turn

\* a fold that is not counted as a turn of the round
fold_current_player_turn_not_counted(t) ==
    LET t1 == [t EXCEPT !.active_players[t.current_player] = FALSE,
                        !.turns_since_action = @ - 1]
        t2 == advance_player(t1).turn
    IN  [turn |-> t2, last |-> Cardinality(ActiveSet(t2)) = 1]

\* fold_current_player, for a turn state with a second active seat
fold_current_player(t) ==
    LET t1 == [t EXCEPT !.active_players[t.current_player] = FALSE]
        t2 == advance_player(t1).turn
    IN  [turn |-> t2, last |-> Cardinality(ActiveSet(t2)) = 1]

----------------------------------------------------------------------------
(* lib.rs: HandState *)

CallOrCheck == [kind |-> "CallOrCheck", amount |-> 0]
Fold == [kind |-> "Fold", amount |-> 0]
Raise(a) == [kind |-> "Raise", amount |-> a]

NextPlayer(p) == [kind |-> "NextPlayer", player |-> p]
WonHand(p) == [kind |-> "WonHand", player |-> p]
RaiseByTooMuch == [kind |-> "RaiseByTooMuch", player |-> -1]

\* the ways a call ends without returning
SubtractOverflow == [kind |-> "SubtractOverflow", player |-> -1]
IndexOutOfBounds == [kind |-> "IndexOutOfBounds", player |-> -1]
EmptyDeck == [kind |-> "EmptyDeck", player |-> -1]
StackOverflow == [kind |-> "StackOverflow", player |-> -1]

Faults == {SubtractOverflow, IndexOutOfBounds, EmptyDeck, StackOverflow}

small_blind_of(n, big) == IF big = 0 THEN n - 1 ELSE big - 1

\* HandState::init with bet_blinds; checks is the build's overflow-checks
\* setting (on, as in a debug build: a u32 underflow panics; off, as in a
\* release build: it wraps)
HandState_init(n, big, stacks, d, checks) ==
    LET dealt == draw_starting_hands(n, d)
        c0 == ChipsState_init(stacks)
        c1 == bet_chips(c0, big, 2)
        c2 == bet_chips(c1, small_blind_of(n, big), 1)
        under == Underflows(c0, big, 2) \/ Underflows(c1, small_blind_of(n, big), 1)
    IN  [hs |-> [chips |-> c2,
                 turn |-> TurnState_init(n, (big + 1) % n),
                 deck |-> dealt.deck,
                 players |-> n,
                 hands |-> dealt.hands,
                 board |-> <<>>],
         result |-> IF checks /\ under THEN SubtractOverflow
                    ELSE NextPlayer((big + 1) % n)]

\* the seven cards best_hand_for_user hands to best_hand_from_cards
SevenCards(hands, board, player) ==
    <<hands[player][1], hands[player][2],
      board[1], board[2], board[3], board[4], board[5]>>

\* the hole cards and the full board a deck deals to n players
Dealt(n, d) ==
    [hands |-> draw_starting_hands(n, d).hands,
     board |-> [i \in 1..5 |-> d[Len(d) - 2 * n - i + 1]]]

ShowdownCards ==
    UNION {{SevenCards(Dealt(n, d).hands, Dealt(n, d).board, p) : p \in 0..(n - 1)} :
           <<n, d>> \in UNION {{<<m, e>> : e \in Decks(m)} : m \in PlayerCounts}}

\* best_hand_from_cards, evaluated once for the cards the decks can bring to
\* a showdown
BestHandMemo == [c \in ShowdownCards |-> best_hand_from_cards(c)]

BestHandLookup(c) ==
    IF c \in DOMAIN BestHandMemo THEN BestHandMemo[c] ELSE best_hand_from_cards(c)

best_hand_for_user(hands, board, player) ==
    BestHandLookup(SevenCards(hands, board, player))

\* (0..players).max_by_key(best_hand_for_user)
get_winning_player(hands, board, n) ==
    MaxIndex([i \in 1..n |-> best_hand_for_user(hands, board, i - 1)]) - 1

play_CallOrCheck(h, checks) ==
    LET cur == h.turn.current_player
        c1 == call(h.chips, cur)
        adv == advance_player(h.turn)
        h1 == [h EXCEPT !.chips = c1, !.turn = adv.turn]
    IN  IF checks /\ Underflows(h.chips, cur, call_amount(h.chips, cur))
        THEN [hs |-> h, result |-> SubtractOverflow]
        ELSE IF ~adv.new_round
        THEN [hs |-> h1, result |-> NextPlayer(adv.turn.current_player)]
        ELSE IF adv.turn.rounds > 3
        THEN IF Len(h.board) < 5
             THEN [hs |-> h1, result |-> IndexOutOfBounds]
             ELSE LET win == get_winning_player(h.hands, h.board, h.players)
                  IN  [hs |-> [h1 EXCEPT !.chips = win_pot(c1, win)],
                       result |-> WonHand(win)]
        ELSE IF adv.turn.rounds = 1
        THEN IF Len(h.deck) < 3
             THEN [hs |-> h1, result |-> EmptyDeck]
             ELSE LET dr == draw_multiple(h.deck, 3)
                  IN  [hs |-> [h1 EXCEPT !.board = @ \o dr.cards, !.deck = dr.deck],
                       result |-> NextPlayer(adv.turn.current_player)]
        ELSE IF Len(h.deck) < 1
             THEN [hs |-> h1, result |-> EmptyDeck]
             ELSE LET dr == draw(h.deck)
                  IN  [hs |-> [h1 EXCEPT !.board = Append(@, dr.card), !.deck = dr.deck],
                       result |-> NextPlayer(adv.turn.current_player)]

play_Fold(h) ==
    LET cur == h.turn.current_player
    IN  IF ActiveSet(h.turn) \ {cur} = {}
        THEN [hs |-> [h EXCEPT !.turn.active_players[cur] = FALSE],
              result |-> StackOverflow]
        ELSE LET f == fold_current_player(h.turn)
             IN  IF f.last
                 THEN [hs |-> [h EXCEPT !.turn = f.turn,
                                        !.chips = win_pot(h.chips, f.turn.current_player)],
                       result |-> WonHand(0)]
                 ELSE [hs |-> [h EXCEPT !.turn = f.turn],
                       result |-> NextPlayer(f.turn.current_player)]

\* the upper bound of the raise off by one
play_Raise_up_to_100(h, amount, checks) ==
    LET cur == h.turn.current_player
    IN  IF amount < 1 \/ amount > 100
        THEN [hs |-> h, result |-> RaiseByTooMuch]
        ELSE IF checks /\ Underflows(h.chips, cur, amount)
        THEN [hs |-> h, result |-> SubtractOverflow]
        ELSE LET t == advance_player_raise(h.turn)
             IN  [hs |-> [h EXCEPT !.chips = bet_chips(h.chips, cur, amount), !.turn = t],
                  result |-> NextPlayer(t.current_player)]

play_Raise(h, amount, checks) ==
    LET cur == h.turn.current_player
    IN  IF amount < 1 \/ amount > 99
        THEN [hs |-> h, result |-> RaiseByTooMuch]
        ELSE IF checks /\ Underflows(h.chips, cur, amount)
        THEN [hs |-> h, result |-> SubtractOverflow]
        ELSE LET t == advance_player_raise(h.turn)
             IN  [hs |-> [h EXCEPT !.chips = bet_chips(h.chips, cur, amount), !.turn = t],
                  result |-> NextPlayer(t.current_player)]

play_action(h, action, checks) ==
    IF action.kind = "CallOrCheck" THEN play_CallOrCheck(h, checks)
    ELSE IF action.kind = "Fold" THEN play_Fold(h)
    ELSE play_Raise(h, action.amount, checks)

----------------------------------------------------------------------------
(* lib.rs: GameState *)

GameState_init(n) ==
    [chips |-> [p \in 0..(n - 1) |-> 100], big_blind |-> n - 1, players |-> n]

\* the big blind staying where it is
apply_played_hand_same_blind(g, h) ==
    [chips |-> get_stacks(h.chips), big_blind |-> g.big_blind, players |-> g.players]

apply_played_hand(g, h) ==
    [chips |-> get_stacks(h.chips),
     big_blind |-> (g.big_blind + 1) % g.players,
     players |-> g.players]

----------------------------------------------------------------------------
(* The session as its callers drive it (main.rs play_hand, the test        *)
(* container of lib.rs)                                                    *)

VARIABLES
    gs,               \* the GameState
    hs,               \* the HandState of the hand being played, or NoHand
    phase,            \* "session", "hand", "won" (WonHand returned), "panic"
    result,           \* what the last call returned, or how it ended
    last_action,      \* the action and the acting seat of the last play_action
    hands_played,     \* hands rolled into the session by apply_played_hand
    raises,           \* Raise calls of this session that passed the bounds check
    late_actions,     \* play_action calls of this session made after WonHand
    only_calls,       \* no Fold and no accepted Raise in this hand so far
    ncalls,           \* CallOrCheck actions returned, while only_calls (else 0)
    raiser,           \* seat of the last accepted Raise, or -1
    raise_round,      \* the round index that Raise was made in, or -1
    acted,            \* seats that called or folded since, up to that round's end
    round_acted,      \* seats that called or folded in the round, while it has no Raise
    drawn,            \* the cards handed to the hand evaluator
    verdict           \* what the evaluator made of them

sessionvars == <<gs, hs, phase, result, last_action, hands_played,
                 raises, late_actions, only_calls, ncalls, raiser, raise_round, acted,
                 round_acted>>

evalvars == <<drawn, verdict>>

vars == <<sessionvars, evalvars>>

NoVerdict == [kind |-> "None"]

RaiseAmounts == {0, 1, 99, 100}

NoHand ==
    [chips |-> [player_chips |-> <<>>, pot |-> 0],
     turn |-> [current_player |-> 0, first_player |-> 0, players |-> 0,
               active_players |-> <<>>, turns_since_action |-> 0, rounds |-> 0],
     deck |-> <<>>, players |-> 0, hands |-> <<>>, board |-> <<>>]

NoResult == [kind |-> "None", player |-> -1]

NoAction == [kind |-> "None", amount |-> 0, player |-> -1]

Init ==
    /\ \E n \in PlayerCounts : gs = GameState_init(n)
    /\ hs = NoHand
    /\ phase = "session"
    /\ result = NoResult
    /\ last_action = NoAction
    /\ hands_played = 0
    /\ raises = 0
    /\ late_actions = 0
    /\ only_calls = TRUE
    /\ ncalls = 0
    /\ raiser = -1
    /\ raise_round = -1
    /\ acted = {}
    /\ round_acted = {}
    /\ drawn = <<>>
    /\ verdict = NoVerdict

\* start_play_hand, for a session of at most limit hands
StartHand(limit) ==
    /\ phase = "session"
    /\ hands_played < limit
    /\ \E d \in Decks(gs.players), checks \in BOOLEAN :
          LET out == HandState_init(gs.players, gs.big_blind, gs.chips, d, checks)
          IN  /\ result' = out.result
              /\ IF out.result \in Faults
                 THEN phase' = "panic" /\ hs' = hs
                 ELSE phase' = "hand" /\ hs' = out.hs
    /\ last_action' = NoAction
    /\ only_calls' = TRUE
    /\ ncalls' = 0
    /\ raiser' = -1
    /\ raise_round' = -1
    /\ acted' = {}
    /\ round_acted' = {}
    /\ UNCHANGED <<gs, hands_played, raises, late_actions, evalvars>>

StartPlayHand == StartHand(MaxHands)

\* the amount the action hands to bet_chips
bet_amount(h, action) ==
    IF action.kind = "CallOrCheck" THEN call_amount(h.chips, h.turn.current_player)
    ELSE IF action.kind = "Raise" /\ action.amount \in 1..99 THEN action.amount
    ELSE 0

\* the overflow-checks settings that tell apart: both when the subtraction
\* underflows (one build panics, the other wraps), else one
Builds(underflow) == IF underflow THEN BOOLEAN ELSE {FALSE}

\* a Raise was accepted in the betting round being played
RaiseOpen == raiser # -1 /\ raise_round = hs.turn.rounds

Play(action) ==
    /\ phase \in {"hand", "won"}
    /\ phase = "won" => late_actions < MaxLateActions
    /\ hs.turn.rounds <= MaxRounds
    /\ action.kind = "Raise" => raises < MaxRaises
    /\ \E out \in {play_action(hs, action, checks) :
                     checks \in Builds(Underflows(hs.chips, hs.turn.current_player,
                                                  bet_amount(hs, action)))} :
        LET cur == hs.turn.current_player
            ok == out.result.kind \in {"NextPlayer", "WonHand"}
        IN
        /\ hs' = out.hs
        /\ result' = out.result
        /\ phase' = IF out.result \in Faults THEN "panic"
                    ELSE IF out.result.kind = "WonHand" THEN "won"
                    ELSE phase
        /\ last_action' = [kind |-> action.kind, amount |-> action.amount, player |-> cur]
        /\ late_actions' = IF phase = "won" THEN late_actions + 1 ELSE late_actions
        /\ raises' = IF action.kind = "Raise" /\ out.result # RaiseByTooMuch
                     THEN raises + 1 ELSE raises
        /\ only_calls' = (only_calls /\ (ok => action.kind = "CallOrCheck"))
        /\ ncalls' = IF ~only_calls' THEN 0
                     ELSE IF ok /\ action.kind = "CallOrCheck" THEN ncalls + 1
                     ELSE ncalls
        /\ raiser' = IF ~ok THEN raiser
                     ELSE IF action.kind = "Raise" THEN cur
                     ELSE IF RaiseOpen THEN raiser
                     ELSE -1
        /\ raise_round' = IF ~ok THEN raise_round
                          ELSE IF action.kind = "Raise" THEN hs.turn.rounds
                          ELSE IF RaiseOpen THEN raise_round
                          ELSE -1
        /\ acted' = IF ~ok THEN acted
                    ELSE IF action.kind = "Raise" THEN {}
                    ELSE IF RaiseOpen THEN acted \cup {cur}
                    ELSE {}
        /\ round_acted' = IF out.result = RaiseByTooMuch THEN round_acted
                          ELSE IF phase # "hand" \/ out.result.kind # "NextPlayer" THEN {}
                          ELSE IF action.kind = "Raise" \/ RaiseOpen THEN {}
                          ELSE IF out.hs.turn.rounds # hs.turn.rounds THEN {}
                          ELSE round_acted \cup {cur}
    /\ UNCHANGED <<gs, hands_played, evalvars>>

PlayCallOrCheck == Play(CallOrCheck)

PlayFold == Play(Fold)

PlayRaise == \E a \in RaiseAmounts : Play(Raise(a))

\* the callers roll a hand into the session on the WonHand return
ApplyPlayedHand ==
    /\ phase = "won"
    /\ result.kind = "WonHand"
    /\ gs' = apply_played_hand(gs, hs)
    /\ hs' = NoHand
    /\ phase' = "session"
    /\ result' = NoResult
    /\ last_action' = NoAction
    /\ hands_played' = hands_played + 1
    /\ UNCHANGED <<raises, late_actions, evalvars>>
    /\ only_calls' = TRUE
    /\ ncalls' = 0
    /\ raiser' = -1
    /\ raise_round' = -1
    /\ acted' = {}
    /\ round_acted' = {}

Next ==
    \/ StartPlayHand
    \/ PlayCallOrCheck
    \/ PlayFold
    \/ PlayRaise
    \/ ApplyPlayedHand

Spec == Init /\ [][Next]_vars

\* The same session going on for one more hand: the stacks a hand starts with
\* are those the hand before has left.
SessionHands == MaxHands + 1

StartNextHand == StartHand(SessionHands)

NextSession ==
    \/ StartNextHand
    \/ PlayCallOrCheck
    \/ PlayFold
    \/ PlayRaise
    \/ ApplyPlayedHand

SpecSession == Init /\ [][NextSession]_vars

\* Sessions in which nobody raises, going on until the big blind has been
\* at every seat of a three-player table.
RotationHands == MaxHands + 2

StartRotationHand == StartHand(RotationHands)

NextRotation ==
    \/ StartRotationHand
    \/ PlayCallOrCheck
    \/ PlayFold
    \/ ApplyPlayedHand

SpecRotation == Init /\ [][NextRotation]_vars

\* the session's chips

Seats == DOMAIN hs.chips.player_chips

stack(p) == hs.chips.player_chips[p].stack

bet(p) == hs.chips.player_chips[p].bet

RECURSIVE SumChips(_, _)
SumChips(f, S) ==
    IF S = {} THEN 0
    ELSE LET p == CHOOSE q \in S : TRUE IN f[p] + SumChips(f, S \ {p})

\* the step is a play_action call
Played == last_action' # NoAction /\ (hs' # hs \/ result' # result \/ last_action' # last_action
                                       \/ late_actions' # late_actions \/ raises' # raises)

Returned == result'.kind \in {"NextPlayer", "WonHand"}

\* the cards on the board once the round index is r
BoardSize(r) == IF r = 0 THEN 0 ELSE IF r = 1 THEN 3 ELSE IF r = 2 THEN 4 ELSE 5

----------------------------------------------------------------------------
(* The hand evaluator on its own: hands of 5 and of 7 cards out of a part  *)
(* of the deck that holds every category of hand                           *)

EvalDeck ==
    <<Card("H", 14), Card("S", 2), Card("H", 3), Card("D", 5), Card("H", 2),
      Card("C", 9), Card("S", 5), Card("H", 4), Card("D", 6), Card("H", 5),
      Card("S", 14), Card("C", 5), Card("H", 6), Card("S", 6)>>

\* the hands of test_all_pairs_of_hands, lowest first, and the two equal
\* hands of test_hands_with_same_value_are_equal
RefHands ==
    << <<Card("D", 3), Card("D", 6), Card("S", 12), Card("H", 9), Card("C", 4)>>,
       <<Card("D", 3), Card("D", 10), Card("S", 13), Card("H", 9), Card("C", 2)>>,
       <<Card("H", 2), Card("H", 5), Card("S", 10), Card("C", 9), Card("D", 13)>>,
       <<Card("D", 3), Card("D", 9), Card("C", 9), Card("S", 4), Card("H", 13)>>,
       <<Card("H", 3), Card("C", 4), Card("H", 10), Card("D", 10), Card("D", 9)>>,
       <<Card("H", 2), Card("H", 5), Card("S", 10), Card("C", 10), Card("S", 9)>>,
       <<Card("D", 6), Card("H", 6), Card("H", 3), Card("S", 3), Card("H", 10)>>,
       <<Card("H", 2), Card("C", 2), Card("C", 7), Card("S", 7), Card("H", 9)>>,
       <<Card("H", 3), Card("H", 7), Card("S", 8), Card("S", 3), Card("C", 3)>>,
       <<Card("C", 14), Card("C", 2), Card("D", 3), Card("D", 4), Card("S", 5)>>,
       <<Card("H", 4), Card("S", 5), Card("C", 8), Card("H", 7), Card("H", 6)>>,
       <<Card("D", 5), Card("D", 8), Card("D", 2), Card("D", 12), Card("D", 9)>>,
       <<Card("S", 5), Card("C", 5), Card("H", 5), Card("S", 8), Card("C", 8)>>,
       <<Card("S", 5), Card("C", 5), Card("H", 8), Card("S", 8), Card("C", 8)>>,
       <<Card("H", 4), Card("S", 4), Card("C", 4), Card("D", 4), Card("S", 9)>>,
       <<Card("H", 14), Card("H", 2), Card("H", 3), Card("H", 4), Card("H", 5)>>,
       <<Card("C", 14), Card("C", 13), Card("C", 12), Card("C", 11), Card("C", 10)>>,
       <<Card("H", 4), Card("D", 4), Card("D", 13), Card("C", 12), Card("H", 10)>>,
       <<Card("D", 10), Card("C", 13), Card("C", 4), Card("H", 12), Card("S", 4)>> >>

Refs == 1..Len(RefHands)

\* the orders in which the five cards of a hand can stand in its array
Orders == {p \in [1..5 -> 1..5] : \A i, j \in 1..5 : p[i] = p[j] => i = j}

\* the orders that turn the array round, forwards or backwards
Turns ==
    {p \in Orders : \E k \in 0..4 :
        \/ \A i \in 1..5 : p[i] = ((i - 1 + k) % 5) + 1
        \/ \A i \in 1..5 : p[i] = ((5 - i + k) % 5) + 1}

Reordered(hand, p) == [i \in 1..5 |-> hand[p[i]]]

\* create_hand's array for the cards of the deck at the given places
RECURSIVE CardsAt(_)
CardsAt(places) ==
    IF places = {} THEN <<>>
    ELSE LET last == CHOOSE i \in places : \A j \in places : j <= i
         IN  Append(CardsAt(places \ {last}), EvalDeck[last])

InitEval ==
    /\ gs = GameState_init(2)
    /\ hs = NoHand
    /\ phase = "session"
    /\ result = NoResult
    /\ last_action = NoAction
    /\ hands_played = 0
    /\ raises = 0
    /\ late_actions = 0
    /\ only_calls = TRUE
    /\ ncalls = 0
    /\ raiser = -1
    /\ raise_round = -1
    /\ acted = {}
    /\ round_acted = {}
    /\ \E places \in SUBSET (1..Len(EvalDeck)) :
          /\ Cardinality(places) \in {5, 7}
          /\ drawn = CardsAt(places)
    /\ verdict = NoVerdict

\* Hand::get_ranking and Hand::cmp of a hand of five cards
RankHand ==
    /\ Len(drawn) = 5
    /\ verdict = NoVerdict
    /\ verdict' = [kind |-> "Ranked",
                   ranking |-> get_ranking(drawn),
                   orders |-> {get_ranking(Reordered(drawn, p)) : p \in Orders},
                   self |-> HandCmp(drawn, drawn),
                   reordered |-> {HandCmp(drawn, Reordered(drawn, p)) : p \in Turns},
                   to |-> [r \in Refs |-> HandCmp(drawn, RefHands[r])],
                   from |-> [r \in Refs |-> HandCmp(RefHands[r], drawn)]]
    /\ UNCHANGED <<sessionvars, drawn>>

\* best_hand_from_cards of seven cards
BestHand ==
    /\ Len(drawn) = 7
    /\ verdict = NoVerdict
    /\ verdict' = [kind |-> "Best",
                   collector |-> combos(drawn, 0, <<>>),
                   best |-> best_hand_from_cards(drawn)]
    /\ UNCHANGED <<sessionvars, drawn>>

NextEval ==
    \/ RankHand
    \/ BestHand

SpecEval == InitEval /\ [][NextEval]_vars

----------------------------------------------------------------------------
(* Properties *)

\* the seat before seat p
SeatBefore(p, n) == (p + n - 1) % n

\* the step is a start_play_hand call
Started == phase = "session" /\ phase' # "session"

\* C11: start_play_hand yields a hand in which the big blind seat has paid 2
\* and the seat before it 1 out of their stacks, no other stack has changed,
\* the pot is 0, the board empty, every seat active with the two cards dealt
\* to it in seat order, and the seat after the big blind is to act and is
\* the seat returned.
C11_HandStart ==
    [][ Started =>
          LET b == gs.big_blind
              n == gs.players
              first == (b + 1) % n
              paid(p) == IF p = b THEN 2 ELSE IF p = SeatBefore(b, n) THEN 1 ELSE 0
          IN  /\ phase' = "hand"
              /\ result' = NextPlayer(first)
              /\ hs'.turn.current_player = first
              /\ hs'.players = n
              /\ \A p \in 0..(n - 1) :
                    /\ hs'.chips.player_chips[p].bet = paid(p)
                    /\ hs'.chips.player_chips[p].stack = gs.chips[p] - paid(p)
                    /\ gs.chips[p] >= 0 => hs'.chips.player_chips[p].stack >= 0
                    /\ hs'.turn.active_players[p]
              /\ hs'.chips.pot = 0
              /\ hs'.board = <<>>
              /\ \E d \in Decks(n) :
                    /\ hs'.deck = SubSeq(d, 1, Len(d) - 2 * n)
                    /\ \A p \in 0..(n - 1) :
                          hs'.hands[p] = <<d[Len(d) - 2 * p], d[Len(d) - 2 * p - 1]>> ]_vars

\* C12: the big blind of the k-th hand of a session of N players is at seat
\* (N - 1 + k) mod N, the hand starts with the small blind posted by the seat
\* before it and the seat after it to act, and the number of players never
\* changes.
C12_BlindRotation ==
    LET n == gs.players
    IN  /\ DOMAIN gs.chips = 0..(n - 1)
        /\ gs.big_blind = (n - 1 + hands_played) % n
        /\ phase \in {"hand", "won"} =>
              /\ hs.players = n
              /\ hs.turn.players = n
              /\ hs.turn.first_player = (gs.big_blind + 1) % n
        /\ (phase = "hand" /\ last_action = NoAction) =>
              /\ hs.turn.current_player = (gs.big_blind + 1) % n
              /\ bet(gs.big_blind) = 2
              /\ bet(SeatBefore(gs.big_blind, n)) = 1

C12_Witness ==
    /\ hands_played = 2
    /\ gs.players = 3
    /\ phase = "hand"
    /\ last_action = NoAction
    /\ gs.big_blind = 1
    /\ bet(1) = 2
    /\ bet(0) = 1
    /\ hs.turn.current_player = 2

\* C13: in every state of a hand the player to act is an active player, and
\* so is the player a NextPlayer result names.
C13_CurrentPlayerActive ==
    (phase \in {"hand", "won"} /\ result \notin Faults) =>
        /\ hs.turn.current_player \in ActiveSet(hs.turn)
        /\ result.kind = "NextPlayer" =>
              /\ result.player = hs.turn.current_player
              /\ result.player \in ActiveSet(hs.turn)

\* a call after which a folded seat was skipped on a round boundary
C13_Witness ==
    /\ phase = "hand"
    /\ result.kind = "NextPlayer"
    /\ last_action.kind = "CallOrCheck"
    /\ hs.turn.rounds >= 1
    /\ hs.turn.turns_since_action >= 1
    /\ hs.turn.first_player \notin ActiveSet(hs.turn)
    /\ hs.turn.current_player = (hs.turn.first_player + 1) % hs.players

\* the comparisons and the categories of the reference hands
RefCmp == [i \in Refs |-> [j \in Refs |-> HandCmp(RefHands[i], RefHands[j])]]

RefCat == [i \in Refs |-> get_ranking(RefHands[i]).cat]

RefOrdered ==
    \A i, j \in Refs :
        /\ RefCmp[i][j] = 0 - RefCmp[j][i]
        /\ RefCat[i] > RefCat[j] => RefCmp[i][j] = 1
        /\ \A k \in Refs : (RefCmp[i][j] <= 0 /\ RefCmp[j][k] <= 0) => RefCmp[i][k] <= 0

\* C14: the order of hands is a total preorder in which the category
\* dominates: a hand equals itself, cmp(a, b) is the reverse of cmp(b, a),
\* <= is transitive, and a hand of a higher category is the greater one
\* whatever the values.
C14_HandOrdering ==
    verdict.kind = "Ranked" =>
        /\ RefOrdered
        /\ verdict.self = 0
        /\ \A r \in Refs :
              /\ verdict.to[r] \in {-1, 0, 1}
              /\ verdict.from[r] = 0 - verdict.to[r]
              /\ verdict.ranking.cat > RefCat[r] => verdict.to[r] = 1
              /\ verdict.ranking.cat < RefCat[r] => verdict.to[r] = -1
        /\ \A r1, r2 \in Refs :
              /\ (verdict.to[r1] <= 0 /\ RefCmp[r1][r2] <= 0) => verdict.to[r2] <= 0
              /\ (verdict.from[r1] <= 0 /\ verdict.to[r2] <= 0) => RefCmp[r1][r2] <= 0
              /\ (RefCmp[r1][r2] <= 0 /\ verdict.from[r2] <= 0) => verdict.from[r1] <= 0

\* a pair with no card above 9 beating the queen-high reference hand
C14_Witness ==
    /\ verdict.kind = "Ranked"
    /\ verdict.ranking.cat = 1
    /\ \A i \in 1..5 : drawn[i].value <= 9
    /\ verdict.to[1] = 1
    /\ verdict.from[1] = -1

ValueSet(hand) == {hand[i].value : i \in 1..5}

Mixed(hand) == \E i \in 2..5 : hand[i].suit # hand[1].suit

IsWheel(hand) == ValueSet(hand) = {14, 2, 3, 4, 5}

OtherStraight(hand) == \E lo \in 2..10 : ValueSet(hand) = lo..(lo + 4)

\* a HighCard, Pair, TwoPairs or ThreeOfAKind hand
BelowStraight(hand) ==
    /\ Mixed(hand)
    /\ ~IsWheel(hand)
    /\ ~OtherStraight(hand)
    /\ Cardinality(ValueSet(hand)) >= 3

\* the wheel of mixed suits among the reference hands
WheelRef == CHOOSE r \in Refs : IsWheel(RefHands[r]) /\ Mixed(RefHands[r])

\* C15: A 2 3 4 5 is a Straight in mixed suits and a StraightFlush in one
\* suit; the mixed wheel is below every other straight and above every
\* HighCard, Pair, TwoPairs and ThreeOfAKind hand.
C15_Wheel ==
    verdict.kind = "Ranked" =>
        /\ IsWheel(drawn) =>
              verdict.ranking.cat = IF Mixed(drawn) THEN Straight(5).cat
                                    ELSE StraightFlush(5).cat
        /\ (IsWheel(drawn) /\ Mixed(drawn)) =>
              \A r \in Refs :
                 /\ (OtherStraight(RefHands[r]) /\ Mixed(RefHands[r])) => verdict.to[r] = -1
                 /\ BelowStraight(RefHands[r]) => verdict.to[r] = 1
        /\ (OtherStraight(drawn) /\ Mixed(drawn)) => verdict.to[WheelRef] = 1
        /\ BelowStraight(drawn) => verdict.to[WheelRef] = -1

C15_Witness ==
    /\ verdict.kind = "Ranked"
    /\ IsWheel(drawn)
    /\ Mixed(drawn)
    /\ verdict.ranking = Straight(5)
    /\ \E r \in Refs : OtherStraight(RefHands[r]) /\ verdict.to[r] = -1
    /\ \E r \in Refs : RefCat[r] = ThreeOfAKind(3).cat /\ verdict.to[r] = 1

CardSet(hand) == {hand[i] : i \in 1..Len(hand)}

\* C16: best_hand_from_cards collects the 21 different hands of 5 of the 7
\* cards and returns one of them that no other of them beats.
C16_BestOfSeven ==
    verdict.kind = "Best" =>
        /\ Len(verdict.collector) = 21
        /\ \A i \in 1..Len(verdict.collector) :
              /\ Len(verdict.collector[i]) = 5
              /\ Cardinality(CardSet(verdict.collector[i])) = 5
              /\ CardSet(verdict.collector[i]) \subseteq CardSet(drawn)
              /\ HandCmp(verdict.best, verdict.collector[i]) >= 0
        /\ Cardinality({CardSet(verdict.collector[i]) : i \in 1..Len(verdict.collector)}) = 21
        /\ \E i \in 1..Len(verdict.collector) : verdict.best = verdict.collector[i]

\* the best hand is neither the first nor the last one collected
C16_Witness ==
    /\ verdict.kind = "Best"
    /\ HandCmp(verdict.best, verdict.collector[1]) = 1
    /\ HandCmp(verdict.best, verdict.collector[21]) = 1

\* the step is a play_action call of an unresolved hand that returned
Acted == phase = "hand" /\ Played /\ Returned

\* the chips the action of the step takes from the acting player's stack
moved_amount ==
    IF last_action'.kind = "Raise" THEN last_action'.amount
    ELSE IF last_action'.kind = "CallOrCheck"
         THEN highest_bet(hs.chips) - bet(hs.turn.current_player)
    ELSE 0

\* C17: an action that does not resolve the hand moves the stated amount
\* from the acting player's stack to that player's bet (the Raise amount,
\* the shortfall to the highest bet for CallOrCheck, nothing for Fold) and
\* changes no other stack or bet and not the pot.
C17_ActionMovesChips ==
    [][ (Acted /\ result'.kind = "NextPlayer") =>
          LET cur == hs.turn.current_player
          IN  /\ last_action'.player = cur
              /\ hs'.chips.player_chips[cur].bet = bet(cur) + moved_amount
              /\ hs'.chips.player_chips[cur].stack = stack(cur) - moved_amount
              /\ stack(cur) >= 0 => hs'.chips.player_chips[cur].stack >= 0
              /\ last_action'.kind = "CallOrCheck" =>
                    hs'.chips.player_chips[cur].bet = highest_bet(hs'.chips)
              /\ \A p \in Seats \ {cur} :
                    hs'.chips.player_chips[p] = hs.chips.player_chips[p]
              /\ hs'.chips.pot = hs.chips.pot ]_vars

\* the bet of seat p once the action of the step has been paid, before any
\* award of the pot
bet_after(p) ==
    IF p = hs.turn.current_player THEN bet(p) + moved_amount ELSE bet(p)

\* C18: whenever the round index increases, every still-active player's bet
\* equals the highest bet.
C18_RoundEndsMatched ==
    [][ (Acted /\ hs'.turn.rounds > hs.turn.rounds) =>
          \A p \in ActiveSet(hs'.turn) : \A q \in Seats : bet_after(p) >= bet_after(q) ]_vars

\* C19: when a betting round closes and the hand goes on, every bet has
\* been collected: all bets are 0 and the pot holds every chip committed.
C19_BetsCollected ==
    [][ (Acted /\ phase' = "hand" /\ hs'.turn.rounds > hs.turn.rounds) =>
          /\ \A p \in Seats : hs'.chips.player_chips[p].bet = 0
          /\ hs'.chips.pot = hs.chips.pot + SumBets(hs.chips.player_chips, Seats)
                                + moved_amount ]_vars

\* the first active seat at or after seat p, in seat order
RECURSIVE FirstActiveFrom(_, _)
FirstActiveFrom(t, p) ==
    IF t.active_players[p] THEN p ELSE FirstActiveFrom(t, (p + 1) % t.players)

\* C20: right after a round boundary the player to act is the seat after the
\* big blind, or the next active seat after it when that seat has folded,
\* and the turn counter has restarted: it counts the folded seats passed
\* over from the seat after the big blind.
C20_RoundStartsAtFirst ==
    [][ (Acted /\ hs'.turn.rounds > hs.turn.rounds) =>
          /\ hs'.turn.rounds = hs.turn.rounds + 1
          /\ hs'.turn.first_player = (gs.big_blind + 1) % gs.players
          /\ hs'.turn.current_player = FirstActiveFrom(hs'.turn, hs'.turn.first_player)
          /\ hs'.turn.turns_since_action
                = (hs'.turn.current_player + hs.players - hs'.turn.first_player) % hs.players
          /\ result'.kind = "NextPlayer" => result'.player = hs'.turn.current_player ]_vars

\* the third betting round starting at the second seat after the big blind
C20_Witness ==
    /\ phase = "hand"
    /\ hs.turn.rounds = 2
    /\ last_action.kind = "CallOrCheck"
    /\ hs.turn.first_player \notin ActiveSet(hs.turn)
    /\ hs.turn.current_player = (hs.turn.first_player + 1) % hs.players
    /\ hs.turn.turns_since_action = 1
    /\ Len(hs.board) = 4

\* C1: in every state of a hand, the players' stacks, their bets and the pot
\* add up to the sum of the stacks the hand was started with.  The sums are
\* sums of u32 values: they agree when the carried integers add up to the
\* same and as many of them stand for a wrapped value on both sides.
C1_ChipConservation ==
    phase \in {"hand", "won"} =>
        /\ SumStacks(hs.chips.player_chips, Seats) + SumBets(hs.chips.player_chips, Seats)
              + hs.chips.pot
           = SumChips(gs.chips, DOMAIN gs.chips)
        /\ Cardinality({p \in Seats : stack(p) < 0})
           = Cardinality({p \in DOMAIN gs.chips : gs.chips[p] < 0})

\* C2: a Fold that leaves exactly one active player returns WonHand and
\* moves the pot and every bet to that player's stack; afterwards the pot and
\* the bets are 0 and no other stack has changed.
C2_FoldTermination ==
    [][ (last_action'.kind = "Fold" /\ Cardinality(ActiveSet(hs'.turn)) = 1) =>
          /\ result'.kind = "WonHand"
          /\ phase' = "won"
          /\ hs'.chips.pot = 0
          /\ \A p \in Seats :
                /\ hs'.chips.player_chips[p].bet = 0
                /\ hs'.chips.player_chips[p].stack =
                      IF p \in ActiveSet(hs'.turn)
                      THEN stack(p) + hs.chips.pot + SumBets(hs.chips.player_chips, Seats)
                      ELSE stack(p) ]_vars

C2_Witness ==
    /\ last_action.kind = "Fold"
    /\ result.kind = "WonHand"
    /\ hs.turn.rounds >= 1
    /\ \E p \in Seats : ActiveSet(hs.turn) = {p} /\ stack(p) > gs.chips[p]

\* C3: whenever play_action returns WonHand(p), p is the player whose stack
\* received the pot: no other stack grew, and after a Fold p is the one
\* player still active.
C3_WonHandNamesWinner ==
    [][ (phase = "hand" /\ result'.kind = "WonHand"
            /\ last_action'.kind \in {"CallOrCheck", "Fold"}) =>
          /\ \A q \in Seats \ {result'.player} :
                hs'.chips.player_chips[q].stack <= stack(q)
          /\ last_action'.kind = "Fold" => ActiveSet(hs'.turn) = {result'.player} ]_vars

\* C4: at showdown the pot goes to one player, who is still active and whose
\* best hand is maximal among the still-active players.
C4_ShowdownWinner ==
    [][ (phase = "hand" /\ result'.kind = "WonHand"
            /\ last_action'.kind = "CallOrCheck") =>
          LET w == result'.player
          IN  /\ w \in ActiveSet(hs'.turn)
              /\ \A q \in ActiveSet(hs'.turn) :
                    HandCmp(best_hand_for_user(hs'.hands, hs'.board, q),
                            best_hand_for_user(hs'.hands, hs'.board, w)) <= 0
              /\ hs'.chips.pot = 0
              /\ \A q \in Seats \ {w} :
                    hs'.chips.player_chips[q].stack <= stack(q) ]_vars

\* C5: while a hand has seen nothing but CallOrCheck, n calls have crossed
\* exactly n \div N round boundaries, the board holds the cards of the round,
\* and the hand is resolved exactly when 4N calls were made.
C5_RoundProgression ==
    (only_calls /\ phase \in {"hand", "won"}) =>
        /\ phase = "hand" =>
              /\ ncalls < 4 * hs.players
              /\ hs.turn.rounds = ncalls \div hs.players
              /\ Len(hs.board) = BoardSize(hs.turn.rounds)
        /\ phase = "won" =>
              /\ ncalls >= 4 * hs.players
              /\ Len(hs.board) = 5

C5_Witness ==
    /\ only_calls
    /\ phase = "won"
    /\ ncalls = 4 * hs.players
    /\ hs.turn.rounds = 4

\* C6: in an unresolved hand the board holds 0, 3, 4, 5 cards while the
\* round index is 0, 1, 2, 3.
C6_BoardTracksRound ==
    (phase = "hand" /\ hs.turn.rounds <= 3) => Len(hs.board) = BoardSize(hs.turn.rounds)

\* C7: after an accepted Raise the betting round does not close before every
\* other still-active player has called or folded since, the Raise itself
\* does not close it, and the raiser is not the player to act while the
\* round lasts.
C7_RaiseRestartsRound ==
    [][ /\ (phase = "hand" /\ Played /\ Returned /\ hs'.turn.rounds # hs.turn.rounds) =>
              /\ last_action'.kind # "Raise"
              /\ RaiseOpen => (ActiveSet(hs'.turn) \ {raiser}) \subseteq acted'
        /\ (phase' = "hand" /\ RaiseOpen') => hs'.turn.current_player # raiser' ]_vars

C7_Witness ==
    /\ phase = "hand"
    /\ raiser # -1
    /\ raise_round < hs.turn.rounds
    /\ acted = ActiveSet(hs.turn) \ {raiser}
    /\ acted # {}

C9_CompleteHandRejects ==
    [][ (phase = "won" /\ Played) =>
          /\ hs' = hs
          /\ result'.kind \notin {"NextPlayer", "WonHand"}
          /\ result' \notin Faults ]_vars

\* C10: bet_chips is never called with more than the stack: no call ends in
\* a subtraction overflow and no stack holds a wrapped value.
C10_StackCoversBet ==
    /\ result # SubtractOverflow
    /\ \A p \in Seats : stack(p) >= 0
    /\ \A p \in DOMAIN gs.chips : gs.chips[p] >= 0

\* the number of cards of the hand with the value v
CountOf(hand, v) == Cardinality({i \in 1..5 : hand[i].value = v})

ValuesWithCount(hand, n) == {v \in ValueSet(hand) : CountOf(hand, v) = n}

HighestOf(values) == CHOOSE v \in values : \A w \in values : w <= v

LowestOf(values) == CHOOSE v \in values : \A w \in values : v <= w

\* the high card of five consecutive values, the wheel's being 5, or 0
StraightHigh(hand) ==
    IF IsWheel(hand) THEN 5
    ELSE IF OtherStraight(hand) THEN HighestOf(ValueSet(hand))
    ELSE 0

\* the ranking of a hand by the rules of the game
Classified(hand) ==
    LET h == StraightHigh(hand)
        four == ValuesWithCount(hand, 4)
        three == ValuesWithCount(hand, 3)
        two == ValuesWithCount(hand, 2)
    IN  IF ~Mixed(hand) /\ h # 0 THEN StraightFlush(h)
        ELSE IF four # {} THEN FourOfAKind(HighestOf(four))
        ELSE IF three # {} /\ two # {} THEN FullHouse(HighestOf(three), HighestOf(two))
        ELSE IF ~Mixed(hand) THEN Flush
        ELSE IF h # 0 THEN Straight(h)
        ELSE IF three # {} THEN ThreeOfAKind(HighestOf(three))
        ELSE IF Cardinality(two) = 2 THEN TwoPairs(HighestOf(two), LowestOf(two))
        ELSE IF two # {} THEN Pair(HighestOf(two))
        ELSE HighCard

RefClassified == \A r \in Refs : get_ranking(RefHands[r]) = Classified(RefHands[r])

\* C21: get_ranking of five distinct cards is the ranking the rules give,
\* in whatever order the cards stand: StraightFlush(h) for one suit and five
\* consecutive values (the wheel's h is 5), else FourOfAKind(v), else
\* FullHouse(three, pair), else Flush, else Straight(h), else
\* ThreeOfAKind(v), TwoPairs(hi, lo) with hi > lo, Pair(v), else HighCard.
C21_Classification ==
    /\ RefClassified
    /\ verdict.kind = "Ranked" =>
          /\ verdict.ranking = Classified(drawn)
          /\ verdict.orders = {Classified(drawn)}

\* two pairs dealt with the lower pair first
C21_Witness ==
    /\ verdict.kind = "Ranked"
    /\ verdict.ranking = TwoPairs(6, 5)
    /\ verdict.orders = {TwoPairs(6, 5)}
    /\ drawn[1].value = 5

\* the five values of the hand from the highest to the lowest
ValuesHighToLow(hand) ==
    [i \in 1..5 |->
        CHOOSE v \in ValueSet(hand) :
            /\ Cardinality({j \in 1..5 : hand[j].value > v}) < i
            /\ i <= Cardinality({j \in 1..5 : hand[j].value >= v})]

Lexicographic(a, b) == CmpSeq(ValuesHighToLow(a), ValuesHighToLow(b))

\* the values the category carries first, the five values after them
FieldsThenValues(a, b) ==
    OrderingThen(CmpSeq(Classified(a).vals, Classified(b).vals), Lexicographic(a, b))

RefLexicographic ==
    \A i, j \in Refs :
        RefCat[i] = RefCat[j] => RefCmp[i][j] = Lexicographic(RefHands[i], RefHands[j])

RefFieldsThenValues ==
    \A i, j \in Refs :
        RefCat[i] = RefCat[j] => RefCmp[i][j] = FieldsThenValues(RefHands[i], RefHands[j])

\* C22 as stated: two hands of one category compare as their values sorted
\* from high to low compare element by element, and a hand compares equal
\* to itself in another order of its cards.
C22_LexicographicWithinCategory ==
    /\ RefLexicographic
    /\ verdict.kind = "Ranked" =>
          /\ verdict.reordered = {0}
          /\ \A r \in Refs :
                verdict.ranking.cat = RefCat[r] =>
                    verdict.to[r] = Lexicographic(drawn, RefHands[r])

\* C22: two hands of one category compare first by the values the category
\* carries (the pair, the two pairs high then low, the three, the straight's
\* high card with the wheel's being 5, the full house's three then pair,
\* the four) and, these being equal, as their values sorted from high to low
\* compare element by element; hands of one category with the same values
\* in other suits or another card order compare equal.
C22_OrderWithinCategory ==
    /\ RefFieldsThenValues
    /\ verdict.kind = "Ranked" =>
          /\ verdict.reordered = {0}
          /\ \A r \in Refs :
                verdict.ranking.cat = RefCat[r] =>
                    /\ verdict.to[r] = FieldsThenValues(drawn, RefHands[r])
                    /\ ValuesHighToLow(drawn) = ValuesHighToLow(RefHands[r]) =>
                          verdict.to[r] = 0

\* a low pair with an ace below a higher pair with lower kickers
C22_Witness ==
    /\ verdict.kind = "Ranked"
    /\ verdict.reordered = {0}
    /\ verdict.ranking = Pair(2)
    /\ \E r \in Refs :
          /\ verdict.ranking.cat = RefCat[r]
          /\ verdict.to[r] = -1
          /\ Lexicographic(drawn, RefHands[r]) = 1

\* the builds a hand state occurs in: a wrapped stack only without the
\* overflow checks
BuildsOf(h) ==
    IF \E p \in DOMAIN h.chips.player_chips : h.chips.player_chips[p].stack < 0
    THEN {FALSE}
    ELSE BOOLEAN

NotFinished == [kind |-> "NotFinished", player |-> -1]

\* the helper of the tests: CallOrCheck until WonHand, at most `left` times
RECURSIVE when_call_until_player_wins(_, _, _)
when_call_until_player_wins(h, left, checks) ==
    IF left = 0 THEN NotFinished
    ELSE LET out == play_action(h, CallOrCheck, checks)
         IN  IF out.result.kind = "NextPlayer"
             THEN when_call_until_player_wins(out.hs, left - 1, checks)
             ELSE out.result

\* C23: from every unresolved hand state with at least two active players,
\* CallOrCheck applied again and again returns WonHand within 100 actions,
\* in either build, without a panic and without endless recursion.
C23_CallingFinishes ==
    (phase = "hand" /\ Cardinality(ActiveSet(hs.turn)) >= 2) =>
        \A checks \in BuildsOf(hs) :
            when_call_until_player_wins(hs, 100, checks).kind = "WonHand"

\* C24: after every hand that was played until WonHand and then rolled
\* into the session, the session's stacks add up to 100 chips per player;
\* as the stacks are u32 values none of them stands for a wrapped value.
C24_SessionConservation ==
    (phase = "session" /\ hands_played >= 1 /\ late_actions = 0) =>
        /\ SumChips(gs.chips, DOMAIN gs.chips) = 100 * gs.players
        /\ \A p \in DOMAIN gs.chips : gs.chips[p] >= 0

\* the CallOrCheck about to be played closes the last betting round
ShowdownTriggered ==
    LET adv == advance_player(hs.turn)
    IN  adv.new_round /\ adv.turn.rounds > 3

\* C25: whenever a CallOrCheck of an unresolved hand triggers the showdown,
\* the board holds exactly 5 cards, so get_winning_player reads no missing
\* card and the call returns WonHand.
C25_ShowdownFullBoard ==
    [][ (/\ phase = "hand"
         /\ Played
         /\ last_action'.kind = "CallOrCheck"
         /\ result' # SubtractOverflow
         /\ ShowdownTriggered) =>
            /\ Len(hs.board) = 5
            /\ result'.kind = "WonHand" ]_vars

\* the seats of the round that are active and have not acted in it, the
\* acting seat not counted
StillToAct == ActiveSet(hs.turn) \ (round_acted \cup {hs.turn.current_player})

\* C26: in a betting round without a Raise no seat acts twice, the round
\* closes on the action after which no active seat is left that has not
\* acted in it, and not before: until then the turn passes to such a seat.
\* Folded seats are passed over whether they folded in this round or before,
\* each counting one turn: the seat to act is as many seats after the
\* round's first seat as turns were counted.
C26_OneTurnPerRound ==
    [][ (/\ phase = "hand"
         /\ Played
         /\ Returned
         /\ last_action'.kind # "Raise"
         /\ ~RaiseOpen) =>
            /\ hs.turn.current_player \notin round_acted
            /\ hs'.turn.rounds # hs.turn.rounds <=> StillToAct = {}
            /\ (phase' = "hand" /\ hs'.turn.rounds = hs.turn.rounds) =>
                  hs'.turn.current_player \in StillToAct
            /\ phase' = "hand" =>
                  hs'.turn.current_player =
                      (hs'.turn.first_player + hs'.turn.turns_since_action) % hs'.turn.players ]_vars

\* the second betting round just closed by two calls, folded seat 0 passed
\* over at its start and again at the start of the third round
C26_Witness ==
    /\ phase = "hand"
    /\ raises = 0
    /\ hs.turn.rounds = 2
    /\ hs.turn.first_player = 0
    /\ ActiveSet(hs.turn) = {1, 2}
    /\ hs.turn.current_player = 1
    /\ hs.turn.turns_since_action = 1
    /\ round_acted = {}
    /\ last_action.kind = "CallOrCheck"

====
